---- MODULE Spec2Model ----
(***************************************************************************)
(* A model of the Groq API key rotation manager (src/groq_key_manager.py): *)
(* the credential pool, the rotation cursor, the bound client handle, the  *)
(* rate-limit classifier and the invoke loop, at statement granularity.    *)
(*                                                                         *)
(* Python indices are kept 0-based: credential i is _keys[i + 1].          *)
(* An optional value (None or an object) is a sequence of length 0 or 1.   *)
(* A text is a sequence of one-character strings.                          *)
(***************************************************************************)
EXTENDS Integers, Sequences, FiniteSets, TLC

\* ------------------------------------------------------------------------
\* Bounds
\* ------------------------------------------------------------------------
MaxKeys == 3        \* pool sizes 1..MaxKeys
MaxRetries == 1     \* max_retries_per_key in 0..MaxRetries
NumCallers == 2     \* caller identities that issue invoke calls
MaxChain == 2       \* depth of an exception's cause/context chain

Callers == 1..NumCallers

\* The credentials the environment can hold, in discovery order.
CredNames == <<"A", "B", "C", "D", "E">>

\* response.content values the transport can return
Responses == {"text1", "text2"}

\* ------------------------------------------------------------------------
\* Texts (str(exc)) as character sequences
\* ------------------------------------------------------------------------
UpperChars == <<"A","B","C","D","E","F","G","H","I","J","K","L","M",
                "N","O","P","Q","R","S","T","U","V","W","X","Y","Z">>
LowerChars == <<"a","b","c","d","e","f","g","h","i","j","k","l","m",
                "n","o","p","q","r","s","t","u","v","w","x","y","z">>

\* str.lower() on one character
LowerChar(c) ==
    IF \E i \in 1..Len(UpperChars) : UpperChars[i] = c
    THEN LowerChars[CHOOSE i \in 1..Len(UpperChars) : UpperChars[i] = c]
    ELSE c

\* str.lower()
Lower(s) == [i \in 1..Len(s) |-> LowerChar(s[i])]

\* the Python test  p in s
Contains(s, p) ==
    \E i \in 1..(Len(s) - Len(p) + 1) : SubSeq(s, i, i + Len(p) - 1) = p

\* the literals of _is_rate_limit_error
Lit429 == <<"4","2","9">>
LitRate == <<"r","a","t","e">>
LitLimit == <<"l","i","m","i","t">>
LitRateUnderscoreLimit == <<"r","a","t","e","_","l","i","m","i","t">>
LitRatelimit == <<"r","a","t","e","l","i","m","i","t">>
LitTooManyRequests ==
    <<"t","o","o"," ","m","a","n","y"," ","r","e","q","u","e","s","t","s">>

\* error texts a provider or transport can produce
TxtHttp429 == <<"H","T","T","P"," ","4","2","9">>
TxtTooMany ==
    <<"T","o","o"," ","M","a","n","y"," ","R","e","q","u","e","s","t","s">>
TxtRateLimit == <<"R","a","t","e","_","L","i","m","i","t">>
TxtLimitRate == <<"L","I","M","I","T"," ","r","a","t","e">>
TxtGenerate == <<"g","e","n","e","r","a","t","e">>
TxtUnlimited == <<"u","n","l","i","m","i","t","e","d">>
TxtTimeout == <<"t","i","m","e","o","u","t">>

Texts == {TxtHttp429, TxtTooMany, TxtRateLimit, TxtLimitRate,
          TxtGenerate, TxtUnlimited, TxtTimeout}

\* ------------------------------------------------------------------------
\* Exceptions: str(exc), __cause__, __context__
\* ------------------------------------------------------------------------
Leaf(t) == [text |-> t, cause |-> <<>>, context |-> <<>>]
FromCause(t, c) == [text |-> t, cause |-> <<c>>, context |-> <<>>]
FromContext(t, x) == [text |-> t, cause |-> <<>>, context |-> <<x>>]
FromBoth(t, c, x) == [text |-> t, cause |-> <<c>>, context |-> <<x>>]

Leaves == {Leaf(t) : t \in Texts}

\* how many links the longest chain under exc has
RECURSIVE ChainDepth(_)
ChainDepth(e) ==
    LET dc == IF e.cause = <<>> THEN 0 ELSE 1 + ChainDepth(e.cause[1])
        dx == IF e.context = <<>> THEN 0 ELSE 1 + ChainDepth(e.context[1])
    IN IF dc >= dx THEN dc ELSE dx

\* the exceptions one more raise makes of exc:  raise New(t) from exc, a raise
\* of New(t) while exc is being handled, and  raise New(t) from exc  while
\* another error x is being handled
Wrappings(e) ==
    {FromCause(t, e) : t \in Texts}
    \cup {FromContext(t, e) : t \in Texts}
    \cup (IF e \in Leaves
          THEN {FromBoth(t, e, x) : t \in Texts, x \in Leaves}
          ELSE {})

\* The text tests of _is_rate_limit_error on the lower-cased text.
TextIsRateLimit(exc_str) ==
    \/ Contains(exc_str, Lit429)
    \/ (Contains(exc_str, LitRate) /\ Contains(exc_str, LitLimit))
    \/ (Contains(exc_str, LitRateUnderscoreLimit) \/ Contains(exc_str, LitRatelimit))
    \/ Contains(exc_str, LitTooManyRequests)

\* cause = exc.__cause__ or exc.__context__
CauseOf(exc) == IF exc.cause # <<>> THEN exc.cause ELSE exc.context

\* a classifier that looks at the error's own text only
IsRateLimitOwnTextOnly(exc) == TextIsRateLimit(Lower(exc.text))

\* GroqKeyManager._is_rate_limit_error
RECURSIVE _is_rate_limit_error(_)
_is_rate_limit_error(exc) ==
    IF TextIsRateLimit(Lower(exc.text)) THEN TRUE
    ELSE IF CauseOf(exc) # <<>> /\ CauseOf(exc)[1] # exc
         THEN _is_rate_limit_error(CauseOf(exc)[1])
         ELSE FALSE

\* errors the transport raises from a dispatch in the manager runs
DispatchErrors ==
    {Leaf(TxtHttp429),
     FromCause(TxtTimeout, Leaf(TxtRateLimit)),
     Leaf(TxtTimeout),
     FromContext(TxtGenerate, Leaf(TxtUnlimited))}

\* ------------------------------------------------------------------------
\* State
\* ------------------------------------------------------------------------
VARIABLES
    _keys,                \* self._keys: the credential pool
    max_retries_per_key,  \* self.max_retries_per_key
    _current_index,       \* self._current_index: the rotation cursor
    _llm,                 \* self._llm: the bound client handle
    pc,                   \* per caller: position inside invoke
    attempts,             \* per caller: local attempts
    total_possible,       \* per caller: local total_possible
    handle,               \* per caller: the handle the dispatch in flight was made on
    exc,                  \* per caller: the exception being handled (optional)
    next_index,           \* per caller: local next_index of _rotate
    rotated,              \* per caller: value returned by _rotate
    caller,               \* who made the call in progress or last completed
    trace,                \* dispatches, rotations and sleeps of that call, in order
    outcome,              \* how that call ended
    startIndex,           \* cursor when that call began
    startOp,              \* operation that preceded that call
    lastOp,               \* last operation begun on the manager
    resetFrom,            \* cursor just before the last reset
    rateLimited,          \* credentials rate-limited since construction or reset
    cls_in,               \* classifier run: the exception passed in
    cls_out,              \* classifier run: "none" or the value returned
    environ,              \* os.environ when the manager is constructed
    constructed,          \* "no", "ok" or the error __init__ raised
    an,                   \* the /analyze request being served
    wf,                   \* the run of the compiled workflow for the current file
    skip_in,              \* should_skip_file run: the path passed in
    skip_out              \* should_skip_file run: "none" or the value returned

mgr == <<_keys, max_retries_per_key, _current_index, _llm>>
locals == <<pc, attempts, total_possible, handle, exc, next_index, rotated>>
hist == <<caller, trace, outcome, startIndex, startOp, lastOp, resetFrom, rateLimited>>
cls == <<cls_in, cls_out>>
boot == <<environ, constructed>>
web == <<an, wf>>
scan == <<skip_in, skip_out>>
rest == <<boot, web, scan>>
vars == <<mgr, locals, hist, cls, rest>>

\* _build_llm: the handle is determined by the credential it is bound to
_build_llm(api_key) == [api_key |-> api_key]

\* total_possible = len(self._keys) * (self.max_retries_per_key + 1)
TotalPossibleNoPlusOne(n, r) == n * r
TotalPossible(n, r) == n * (r + 1)

\* next_index = self._current_index + 1
NextIndexSkip(i) == i + 2
NextIndexStay(i) == i
NextIndex(i) == i + 1

\* if next_index >= len(self._keys): return False
RotateExhaustedEarly(next, n) == next >= n - 1
RotateExhausted(next, n) == next >= n

NoOutcome == [kind |-> "none", val |-> "", exc |-> <<>>]
Returned(r) == [kind |-> "text", val |-> r, exc |-> <<>>]
Raised(e) == [kind |-> "error", val |-> "", exc |-> e]
\* raise AllKeysExhaustedError(...) from exc
Exhausted(e) == [kind |-> "AllKeysExhaustedError", val |-> "rate-limited", exc |-> e]
\* the raise after the while loop: no cause
SafetyNet == [kind |-> "AllKeysExhaustedError", val |-> "max-retries", exc |-> <<>>]

EvDispatchOk(h, r) ==
    [ev |-> "dispatch", key |-> h.api_key, res |-> "ok", val |-> r, exc |-> <<>>]
EvDispatchRaise(h, e) ==
    [ev |-> "dispatch", key |-> h.api_key, res |-> "raise", val |-> "", exc |-> <<e>>]
EvRotate(b) ==
    [ev |-> "rotate", key |-> "", res |-> IF b THEN "True" ELSE "False",
     val |-> "", exc |-> <<>>]
EvSleep == [ev |-> "sleep", key |-> "", res |-> "", val |-> "", exc |-> <<>>]

NoException == Leaf(<<>>)
NoHandle == [api_key |-> ""]

\* ------------------------------------------------------------------------
\* The environment and _load_keys
\* ------------------------------------------------------------------------
\* the characters of the names below in code point order
CodePoints == <<"0","1","2","3","4","5","6","7","8","9",
                "A","E","G","I","K","O","P","Q","R","X","Y","_">>
Digits == {"0","1","2","3","4","5","6","7","8","9"}

Ord(c) == CHOOSE i \in 1..Len(CodePoints) : CodePoints[i] = c

\* a < b for Python strings
RECURSIVE StrLess(_, _)
StrLess(a, b) ==
    IF b = <<>> THEN FALSE
    ELSE IF a = <<>> THEN TRUE
    ELSE IF Head(a) = Head(b) THEN StrLess(Tail(a), Tail(b))
    ELSE Ord(Head(a)) < Ord(Head(b))

NameBase == <<"G","R","O","Q","_","A","P","I","_","K","E","Y">>
Name0 == <<"G","R","O","Q","_","A","P","I","_","K","E","Y","_","0">>
Name1 == <<"G","R","O","Q","_","A","P","I","_","K","E","Y","_","1">>
Name2 == <<"G","R","O","Q","_","A","P","I","_","K","E","Y","_","2">>
NameX == <<"G","R","O","Q","_","A","P","I","_","K","E","Y","_","X">>

\* the names the environment can define, besides others that cannot match
EnvNames == {NameBase, Name0, Name1, Name2, NameX}

\* re.compile(r"^GROQ_API_KEY(_\d+)?$").match(var_name)
PatternMatches(var_name) ==
    \/ var_name = NameBase
    \/ /\ Len(var_name) >= Len(NameBase) + 2
       /\ SubSeq(var_name, 1, Len(NameBase)) = NameBase
       /\ var_name[Len(NameBase) + 1] = "_"
       /\ \A i \in (Len(NameBase) + 2)..Len(var_name) : var_name[i] \in Digits

\* values an entry can have; an absent entry is <<>>, a present one <<value>>
ValEmpty == <<>>
ValBlank == <<" ">>
ValA == <<"A">>
ValAPadded == <<" ","A"," ">>
ValBQuoted == <<"\"","B","\"">>
ValQuotesOnly == <<"\"","\"">>

EnvValues == {ValEmpty, ValBlank, ValA, ValAPadded, ValBQuoted, ValQuotesOnly}

Whitespace == {" "}

\* str.strip(chars)
RECURSIVE LStrip(_, _)
LStrip(v, chars) ==
    IF v # <<>> /\ Head(v) \in chars THEN LStrip(Tail(v), chars) ELSE v
RECURSIVE RStrip(_, _)
RStrip(v, chars) ==
    IF v # <<>> /\ v[Len(v)] \in chars THEN RStrip(SubSeq(v, 1, Len(v) - 1), chars) ELSE v
Strip(v, chars) == RStrip(LStrip(v, chars), chars)

\* clean = value.strip().strip('"').strip("'")
Clean(value) == Strip(Strip(Strip(value, Whitespace), {"\""}), {"'"})

\* the string made of the characters
RECURSIVE Join(_)
Join(v) == IF v = <<>> THEN "" ELSE Head(v) \o Join(Tail(v))

\* sorted(os.environ.items()): the names defined, in increasing order
RECURSIVE SortedNames(_)
SortedNames(S) ==
    IF S = {} THEN <<>>
    ELSE LET m == CHOOSE x \in S : \A y \in S \ {x} : StrLess(x, y)
         IN <<m>> \o SortedNames(S \ {m})

Defined(env) == {n \in DOMAIN env : env[n] # <<>>}

\* a filter that lets blank values through
KeepsUnseen(clean, keys) == \A i \in 1..Len(keys) : keys[i] # Join(clean)

\* if clean and clean not in seen
Keeps(clean, keys) == clean # <<>> /\ \A i \in 1..Len(keys) : keys[i] # Join(clean)

\* the loop of _load_keys over the sorted names still to visit
RECURSIVE LoadFrom(_, _, _)
LoadFrom(env, names, keys) ==
    IF names = <<>> THEN keys
    ELSE LET var_name == Head(names)
             value == env[var_name][1]
         IN IF PatternMatches(var_name) /\ value # <<>> /\ Keeps(Clean(value), keys)
            THEN LoadFrom(env, Tail(names), Append(keys, Join(Clean(value))))
            ELSE LoadFrom(env, Tail(names), keys)

\* GroqKeyManager._load_keys
_load_keys(env) == LoadFrom(env, SortedNames(Defined(env)), <<>>)

\* an environment that defines the credentials of the pool, one per name
PoolNames == <<NameBase, Name0, Name1, Name2>>
EnvOfPool(pool) ==
    [n \in EnvNames |->
        IF \E i \in 1..Len(pool) : PoolNames[i] = n
        THEN <<<<pool[CHOOSE i \in 1..Len(pool) : PoolNames[i] = n]>>>>
        ELSE <<>>]

\* ------------------------------------------------------------------------
\* The workflow and the request handler, at rest
\* ------------------------------------------------------------------------
\* the nodes with an edge from START
Agents == {"style", "type", "security", "complexity", "documentation"}

\* no run of the compiled workflow is in progress
WfIdle ==
    [stage |-> "idle", agent |-> [a \in Agents |-> "pending"],
     report |-> "pending", fixer |-> "pending", error |-> "none", reports |-> 0]

\* no request is being handled
AnIdle ==
    [pc |-> "idle", n |-> 0, i |-> 0, results |-> <<>>, skipped_count |-> 0,
     read |-> <<>>, passed |-> <<>>, response |-> "none"]

\* the manager of an application that started, its handler and scanner at rest
InitStarted ==
    /\ environ = EnvOfPool(_keys)
    /\ constructed = "ok"
    /\ an = AnIdle
    /\ wf = WfIdle
    /\ skip_in = <<>>
    /\ skip_out = "none"

\* no call has been made yet
InitCall ==
    /\ pc = [t \in Callers |-> "idle"]
    /\ attempts = [t \in Callers |-> 0]
    /\ total_possible = [t \in Callers |-> 0]
    /\ handle = [t \in Callers |-> NoHandle]
    /\ exc = [t \in Callers |-> <<>>]
    /\ next_index = [t \in Callers |-> 0]
    /\ rotated = [t \in Callers |-> FALSE]
    /\ caller = 1
    /\ trace = <<>>
    /\ outcome = NoOutcome
    /\ startIndex = 0
    /\ startOp = "init"
    /\ lastOp = "init"
    /\ resetFrom = 0
    /\ rateLimited = {}

\* the state of everything but the pool, the allowance and the classifier run
InitRest ==
    /\ _current_index = 0
    /\ _llm = _build_llm(_keys[_current_index + 1])
    /\ InitCall

\* GroqKeyManager.__init__ with a non-empty pool
Init ==
    /\ \E n \in 1..MaxKeys : _keys = SubSeq(CredNames, 1, n)
    /\ max_retries_per_key \in 0..MaxRetries
    /\ InitRest
    /\ cls_in = NoException
    /\ cls_out = "none"
    /\ InitStarted

\* one invoke call runs to completion before the next operation begins
Sequential == \A u \in Callers : pc[u] = "idle"

\* the record takes the events of the call begun last for as long as no other
\* call is in progress: under sequential use, every event of the call
Record(t, e) ==
    IF t = caller /\ \A u \in Callers \ {t} : pc[u] = "idle"
    THEN Append(trace, e) ELSE trace

\* the frame of invoke is gone once the call has returned or raised
EndCall(t) ==
    /\ pc' = [pc EXCEPT ![t] = "idle"]
    /\ attempts' = [attempts EXCEPT ![t] = 0]
    /\ total_possible' = [total_possible EXCEPT ![t] = 0]
    /\ handle' = [handle EXCEPT ![t] = NoHandle]
    /\ exc' = [exc EXCEPT ![t] = <<>>]
    /\ next_index' = [next_index EXCEPT ![t] = 0]
    /\ rotated' = [rotated EXCEPT ![t] = FALSE]

\* invoke: attempts = 0; total_possible = ... (a method of a constructed instance)
InvokeBegin(t) ==
    /\ constructed = "ok"
    /\ pc[t] = "idle"
    /\ pc' = [pc EXCEPT ![t] = "loop"]
    /\ attempts' = [attempts EXCEPT ![t] = 0]
    /\ total_possible' = [total_possible EXCEPT
                             ![t] = TotalPossible(Len(_keys), max_retries_per_key)]
    /\ caller' = t
    /\ trace' = <<>>
    /\ outcome' = NoOutcome
    /\ startIndex' = _current_index
    /\ startOp' = lastOp
    /\ lastOp' = "invoke"
    /\ UNCHANGED <<mgr, handle, exc, next_index, rotated, resetFrom, rateLimited, cls, rest>>

\* an invoke call of a caller that waits for the previous operation to end
InvokeStart(t) == Sequential /\ InvokeBegin(t)

\* while attempts < total_possible: ... ; after the loop: the safety-net raise
LoopTest(t) ==
    /\ pc[t] = "loop"
    /\ IF attempts[t] < total_possible[t]
       THEN /\ pc' = [pc EXCEPT ![t] = "call"]
            /\ UNCHANGED <<attempts, total_possible, handle, exc, next_index, rotated,
                           outcome>>
       ELSE /\ outcome' = SafetyNet
            /\ EndCall(t)
    /\ UNCHANGED <<mgr, caller, trace, startIndex, startOp, lastOp, resetFrom,
                   rateLimited, cls, rest>>

\* self._llm.invoke(prompt): the request goes out on the handle read now
Dispatch(t) ==
    /\ pc[t] = "call"
    /\ handle' = [handle EXCEPT ![t] = _llm]
    /\ pc' = [pc EXCEPT ![t] = "wait"]
    /\ UNCHANGED <<mgr, attempts, total_possible, exc, next_index, rotated, hist, cls, rest>>

\* a misplaced return: the loop goes on after a successful dispatch
DispatchReturnAndGoOn(t) ==
    /\ pc[t] = "wait"
    /\ \E r \in Responses : trace' = Record(t, EvDispatchOk(handle[t], r))
    /\ pc' = [pc EXCEPT ![t] = "loop"]
    /\ UNCHANGED <<mgr, attempts, total_possible, handle, exc, next_index, rotated,
                   caller, outcome, startIndex, startOp, lastOp, resetFrom,
                   rateLimited, cls, rest>>

\* response = self._llm.invoke(prompt); return response.content
DispatchReturn(t) ==
    /\ pc[t] = "wait"
    /\ \E r \in Responses :
          /\ trace' = Record(t, EvDispatchOk(handle[t], r))
          /\ outcome' = Returned(r)
    /\ EndCall(t)
    /\ UNCHANGED <<mgr, caller, startIndex, startOp, lastOp, resetFrom,
                   rateLimited, cls, rest>>

\* self._llm.invoke(prompt) raises: control enters  except Exception as exc
DispatchRaise(t) ==
    /\ pc[t] = "wait"
    /\ \E e \in DispatchErrors :
          LET raised == [err |-> e, by |-> handle[t].api_key] IN
          /\ exc' = [exc EXCEPT ![t] = <<raised>>]
          /\ trace' = Record(t, EvDispatchRaise(handle[t], raised))
    /\ pc' = [pc EXCEPT ![t] = "except"]
    /\ UNCHANGED <<mgr, attempts, total_possible, handle, next_index, rotated,
                   caller, outcome, startIndex, startOp, lastOp, resetFrom,
                   rateLimited, cls, rest>>

\* a handler that rotates on every error, whatever its class
ExceptRotateAlways(t) ==
    /\ pc[t] = "except"
    /\ attempts' = [attempts EXCEPT ![t] = @ + 1]
    /\ rateLimited' = rateLimited \cup {exc[t][1].by}
    /\ pc' = [pc EXCEPT ![t] = "rotate"]
    /\ UNCHANGED <<mgr, total_possible, handle, exc, next_index, rotated,
                   caller, trace, outcome, startIndex, startOp, lastOp, resetFrom, cls, rest>>

\* a handler that retries the same credential max_retries_per_key times
\* before it rotates
ExceptRetryInPlace(t) ==
    /\ pc[t] = "except"
    /\ IF ~ _is_rate_limit_error(exc[t][1].err)
       THEN /\ outcome' = Raised(exc[t])
            /\ EndCall(t)
            /\ UNCHANGED rateLimited
       ELSE /\ attempts' = [attempts EXCEPT ![t] = @ + 1]
            /\ rateLimited' = rateLimited \cup {exc[t][1].by}
            /\ pc' = [pc EXCEPT ![t] =
                        IF (attempts[t] + 1) % (max_retries_per_key + 1) = 0
                        THEN "rotate" ELSE "loop"]
            /\ UNCHANGED <<total_possible, handle, exc, next_index, rotated, outcome>>
    /\ UNCHANGED <<mgr, caller, trace, startIndex, startOp, lastOp, resetFrom, cls, rest>>

\* a handler that re-raises every error, rate-limit errors included
ExceptRaisesAll(t) ==
    /\ pc[t] = "except"
    /\ outcome' = Raised(exc[t])
    /\ EndCall(t)
    /\ UNCHANGED <<mgr, caller, trace, startIndex, startOp, lastOp, resetFrom,
                   rateLimited, cls, rest>>

\* if not self._is_rate_limit_error(exc): raise ; attempts += 1 ; log
Except(t) ==
    /\ pc[t] = "except"
    /\ IF ~ _is_rate_limit_error(exc[t][1].err)
       THEN /\ outcome' = Raised(exc[t])
            /\ EndCall(t)
            /\ UNCHANGED rateLimited
       ELSE /\ attempts' = [attempts EXCEPT ![t] = @ + 1]
            /\ rateLimited' = rateLimited \cup {exc[t][1].by}
            /\ pc' = [pc EXCEPT ![t] = "rotate"]
            /\ UNCHANGED <<total_possible, handle, exc, next_index, rotated, outcome>>
    /\ UNCHANGED <<mgr, caller, trace, startIndex, startOp, lastOp, resetFrom, cls, rest>>

\* a rotation that wraps round to the first credential
RotateCheckWrap(t) ==
    /\ pc[t] = "rotate"
    /\ next_index' = [next_index EXCEPT ![t] = NextIndex(_current_index) % Len(_keys)]
    /\ pc' = [pc EXCEPT ![t] = "rot_set"]
    /\ UNCHANGED <<mgr, attempts, total_possible, handle, exc, rotated, hist, cls, rest>>

\* _rotate: next_index = self._current_index + 1
\*          if next_index >= len(self._keys): return False
RotateCheck(t) ==
    /\ pc[t] = "rotate"
    /\ LET next == NextIndex(_current_index) IN
       /\ next_index' = [next_index EXCEPT ![t] = next]
       /\ IF RotateExhausted(next, Len(_keys))
          THEN /\ rotated' = [rotated EXCEPT ![t] = FALSE]
               /\ trace' = Record(t, EvRotate(FALSE))
               /\ pc' = [pc EXCEPT ![t] = "rotret"]
          ELSE /\ pc' = [pc EXCEPT ![t] = "rot_set"]
               /\ UNCHANGED <<rotated, trace>>
    /\ UNCHANGED <<mgr, attempts, total_possible, handle, exc,
                   caller, outcome, startIndex, startOp, lastOp, resetFrom,
                   rateLimited, cls, rest>>

\* _rotate: self._current_index = next_index
RotateSetIndex(t) ==
    /\ pc[t] = "rot_set"
    /\ _current_index' = next_index[t]
    /\ pc' = [pc EXCEPT ![t] = "rot_build"]
    /\ UNCHANGED <<_keys, max_retries_per_key, _llm, attempts, total_possible,
                   handle, exc, next_index, rotated, hist, cls, rest>>

\* a rotation that rebuilds the handle from the credential it leaves
RotateBuildStale(t) ==
    /\ pc[t] = "rot_build"
    /\ _llm' = _build_llm(_keys[_current_index])
    /\ rotated' = [rotated EXCEPT ![t] = TRUE]
    /\ trace' = Record(t, EvRotate(TRUE))
    /\ pc' = [pc EXCEPT ![t] = "rotret"]
    /\ UNCHANGED <<_keys, max_retries_per_key, _current_index, attempts, total_possible,
                   handle, exc, next_index,
                   caller, outcome, startIndex, startOp, lastOp, resetFrom,
                   rateLimited, cls, rest>>

\* _rotate: self._llm = self._build_llm(self._keys[self._current_index]); return True
RotateBuild(t) ==
    /\ pc[t] = "rot_build"
    /\ _llm' = _build_llm(_keys[_current_index + 1])
    /\ rotated' = [rotated EXCEPT ![t] = TRUE]
    /\ trace' = Record(t, EvRotate(TRUE))
    /\ pc' = [pc EXCEPT ![t] = "rotret"]
    /\ UNCHANGED <<_keys, max_retries_per_key, _current_index, attempts, total_possible,
                   handle, exc, next_index,
                   caller, outcome, startIndex, startOp, lastOp, resetFrom,
                   rateLimited, cls, rest>>

\* an invoke that puts the cursor back where the call found it before it raises
AfterRotateRestore(t) ==
    /\ pc[t] = "rotret"
    /\ IF ~ rotated[t]
       THEN /\ outcome' = Exhausted(exc[t])
            /\ _current_index' = startIndex
            /\ _llm' = _build_llm(_keys[startIndex + 1])
            /\ EndCall(t)
       ELSE /\ pc' = [pc EXCEPT ![t] = "sleep"]
            /\ UNCHANGED <<_current_index, _llm, attempts, total_possible, handle, exc,
                           next_index, rotated, outcome>>
    /\ UNCHANGED <<_keys, max_retries_per_key, caller, trace, startIndex, startOp, lastOp,
                   resetFrom, rateLimited, cls, rest>>

\* if not self._rotate(): raise AllKeysExhaustedError(...) from exc
AfterRotate(t) ==
    /\ pc[t] = "rotret"
    /\ IF ~ rotated[t]
       THEN /\ outcome' = Exhausted(exc[t])
            /\ EndCall(t)
       ELSE /\ pc' = [pc EXCEPT ![t] = "sleep"]
            /\ UNCHANGED <<attempts, total_possible, handle, exc, next_index, rotated,
                           outcome>>
    /\ UNCHANGED <<mgr, caller, trace, startIndex, startOp, lastOp, resetFrom,
                   rateLimited, cls, rest>>

\* a cooldown taken twice
SleepTwice(t) ==
    /\ pc[t] = "sleep"
    /\ trace' = Record(t, EvSleep) \o <<EvSleep>>
    /\ pc' = [pc EXCEPT ![t] = "loop"]
    /\ UNCHANGED <<mgr, attempts, total_possible, handle, exc, next_index, rotated,
                   caller, outcome, startIndex, startOp, lastOp, resetFrom,
                   rateLimited, cls, rest>>

\* time.sleep(self.cooldown_seconds), then back to the loop test
Sleep(t) ==
    /\ pc[t] = "sleep"
    /\ trace' = Record(t, EvSleep)
    /\ pc' = [pc EXCEPT ![t] = "loop"]
    /\ UNCHANGED <<mgr, attempts, total_possible, handle, exc, next_index, rotated,
                   caller, outcome, startIndex, startOp, lastOp, resetFrom,
                   rateLimited, cls, rest>>

\* a reset that forgets to rebuild the handle
ResetIndexOnly ==
    /\ constructed = "ok"
    /\ Sequential
    /\ _current_index' = 0
    /\ lastOp' = "reset"
    /\ resetFrom' = _current_index
    /\ rateLimited' = {}
    /\ UNCHANGED <<_keys, max_retries_per_key, _llm, locals,
                   caller, trace, outcome, startIndex, startOp, cls, rest>>

\* reset: self._current_index = 0; self._llm = self._build_llm(self._keys[0])
reset ==
    /\ constructed = "ok"
    /\ Sequential
    /\ _current_index' = 0
    /\ _llm' = _build_llm(_keys[0 + 1])
    /\ lastOp' = "reset"
    /\ resetFrom' = _current_index
    /\ rateLimited' = {}
    /\ UNCHANGED <<_keys, max_retries_per_key, locals,
                   caller, trace, outcome, startIndex, startOp, cls, rest>>

Next ==
    \/ \E t \in Callers :
          \/ InvokeStart(t)
          \/ LoopTest(t)
          \/ Dispatch(t)
          \/ DispatchReturn(t)
          \/ DispatchRaise(t)
          \/ Except(t)
          \/ RotateCheck(t)
          \/ RotateSetIndex(t)
          \/ RotateBuild(t)
          \/ AfterRotate(t)
          \/ Sleep(t)
    \/ reset

Spec == Init /\ [][Next]_vars

\* ------------------------------------------------------------------------
\* The classifier run on its own: any exception in, one call
\* ------------------------------------------------------------------------
InitClassify ==
    /\ _keys = SubSeq(CredNames, 1, 1)
    /\ max_retries_per_key = 0
    /\ InitRest
    /\ cls_in \in Leaves
    /\ cls_out = "none"
    /\ InitStarted

\* the error is wrapped once more before it reaches the classifier
WrapError ==
    /\ cls_out = "none"
    /\ ChainDepth(cls_in) < MaxChain
    /\ cls_in' \in Wrappings(cls_in)
    /\ UNCHANGED <<mgr, locals, hist, cls_out, rest>>

\* GroqKeyManager._is_rate_limit_error(cls_in)
Classify ==
    /\ cls_out = "none"
    /\ cls_out' = IF _is_rate_limit_error(cls_in) THEN "True" ELSE "False"
    /\ UNCHANGED <<mgr, locals, hist, cls_in, rest>>

NextClassify == WrapError \/ Classify

SpecClassify == InitClassify /\ [][NextClassify]_vars

\* ------------------------------------------------------------------------
\* Reading the record of a call
\* ------------------------------------------------------------------------
IsDispatch(e) == e.ev = "dispatch"
IsRotate(e) == e.ev = "rotate"
IsRotateTrue(e) == e.ev = "rotate" /\ e.res = "True"
IsSleep(e) == e.ev = "sleep"
IsRateLimitedDispatch(e) ==
    e.ev = "dispatch" /\ e.res = "raise" /\ _is_rate_limit_error(e.exc[1].err)
IsOtherErrorDispatch(e) ==
    e.ev = "dispatch" /\ e.res = "raise" /\ ~ _is_rate_limit_error(e.exc[1].err)

Dispatches == SelectSeq(trace, IsDispatch)
DispatchKeys == [i \in 1..Len(Dispatches) |-> Dispatches[i].key]
NumDispatches == Len(Dispatches)
NumRateLimited == Len(SelectSeq(trace, IsRateLimitedDispatch))
NumRotateCalls == Len(SelectSeq(trace, IsRotate))
NumAdvances == Len(SelectSeq(trace, IsRotateTrue))
NumSleeps == Len(SelectSeq(trace, IsSleep))

PoolSize == Len(_keys)
CallDone == pc[caller] = "idle" /\ outcome.kind # "none"
CallExhausted == CallDone /\ outcome.kind = "AllKeysExhaustedError"
\* no reset has come between the call and now
CallIsLatest == lastOp = "invoke"
AllRateLimited == \A i \in 1..Len(trace) : IsDispatch(trace[i]) => IsRateLimitedDispatch(trace[i])
AllFromZero == CallDone /\ startIndex = 0 /\ AllRateLimited

\* ------------------------------------------------------------------------
\* C1
\* ------------------------------------------------------------------------
\* C1 as stated: with the cursor at 0 and every dispatch of the call
\* rate-limited, the credentials are dispatched to in pool order 0..N-1, the
\* cursor advances once per detected rate-limit error, and the call ends with
\* AllKeysExhaustedError caused by the last credential's error.
C1_Original ==
    AllFromZero =>
        /\ DispatchKeys = _keys
        /\ NumAdvances = NumRateLimited
        /\ outcome = Exhausted(Dispatches[NumDispatches].exc)
        /\ outcome.exc[1].by = _keys[PoolSize]

\* C1 amended: with the cursor at 0 and every dispatch of the call
\* rate-limited, the credentials are dispatched to in pool order 0..N-1,
\* _rotate is called exactly once per detected rate-limit error, right after
\* it, and advances the cursor by one on each of them except the error of the
\* last credential (N-1 advances), and the call ends with
\* AllKeysExhaustedError caused by the last credential's error.
C1_Amended ==
    AllFromZero =>
        /\ DispatchKeys = _keys
        /\ NumRotateCalls = NumRateLimited
        /\ \A i \in 1..Len(trace) :
              IsRateLimitedDispatch(trace[i]) => (i < Len(trace) /\ IsRotate(trace[i + 1]))
        /\ NumAdvances = NumRateLimited - 1
        /\ CallIsLatest => _current_index = PoolSize - 1
        /\ outcome = Exhausted(Dispatches[NumDispatches].exc)
        /\ outcome.exc[1].by = _keys[PoolSize]

C1_Witness == AllFromZero /\ PoolSize = 3 /\ NumDispatches = 3 /\ CallExhausted

\* ------------------------------------------------------------------------
\* C2
\* ------------------------------------------------------------------------
\* C2: a successful dispatch is the last thing the call does and its text is
\* what invoke returns; when the first dispatch succeeds there is exactly one
\* dispatch and the cursor and the handle are as they were before the call.
C2_FirstSuccessReturns ==
    /\ \A i \in 1..Len(trace) :
          (IsDispatch(trace[i]) /\ trace[i].res = "ok") =>
              /\ i = Len(trace)
              /\ pc[caller] = "idle"
              /\ outcome = Returned(trace[i].val)
    /\ outcome.kind = "text" =>
          (Len(trace) >= 1 /\ trace[Len(trace)] = EvDispatchOk(_build_llm(trace[Len(trace)].key), outcome.val))
    /\ (Len(trace) >= 1 /\ trace[1].res = "ok" /\ CallIsLatest) =>
          /\ NumDispatches = 1
          /\ _current_index = startIndex
          /\ _llm = _build_llm(_keys[startIndex + 1])

C2_Witness ==
    /\ CallDone /\ CallIsLatest /\ outcome.kind = "text"
    /\ Len(trace) = 1 /\ startIndex >= 1

\* ------------------------------------------------------------------------
\* C3
\* ------------------------------------------------------------------------
\* C3: a dispatch error the classifier does not take for a rate limit is the
\* last event of the call, invoke ends with that very error, and when it is
\* the first dispatch the cursor and the handle are unchanged by the call.
C3_OtherErrorPropagates ==
    /\ \A i \in 1..Len(trace) :
          IsOtherErrorDispatch(trace[i]) =>
              /\ i = Len(trace)
              /\ pc[caller] \in {"except", "idle"}
              /\ pc[caller] = "idle" => outcome = Raised(trace[i].exc)
              /\ (i = 1 /\ CallIsLatest) =>
                    /\ _current_index = startIndex
                    /\ _llm = _build_llm(_keys[startIndex + 1])
    /\ outcome.kind = "error" =>
          (Len(trace) >= 1 /\ IsOtherErrorDispatch(trace[Len(trace)]))

C3_Witness ==
    /\ CallDone /\ outcome.kind = "error"
    /\ NumDispatches >= 2
    /\ outcome.exc[1].by = _keys[PoolSize]

\* ------------------------------------------------------------------------
\* C4
\* ------------------------------------------------------------------------
\* C4 as stated: a call makes at most N*(R+1) dispatches and N*(R+1) is the
\* maximum: the call that runs out of credentials from a fresh cursor, every
\* dispatch rate-limited, makes exactly N*(R+1) of them.
C4_Original ==
    /\ NumDispatches <= PoolSize * (max_retries_per_key + 1)
    /\ (AllFromZero /\ CallExhausted) =>
          NumDispatches = PoolSize * (max_retries_per_key + 1)

\* C4 amended: a call that starts with the cursor at c makes at most N - c
\* dispatches, so at most N, which never exceeds N*(R+1) and equals it only
\* for R = 0; a call that ends with AllKeysExhaustedError has made exactly
\* N - c dispatches.
C4_Amended ==
    /\ NumDispatches <= PoolSize - startIndex
    /\ NumDispatches <= PoolSize * (max_retries_per_key + 1)
    /\ CallExhausted => NumDispatches = PoolSize - startIndex
    /\ (NumDispatches = PoolSize * (max_retries_per_key + 1)) =>
          (max_retries_per_key = 0 /\ startIndex = 0)

C4_Witness ==
    /\ CallExhausted /\ startIndex = 0
    /\ max_retries_per_key >= 1 /\ PoolSize >= 2
    /\ NumDispatches = PoolSize

\* ------------------------------------------------------------------------
\* C5
\* ------------------------------------------------------------------------
\* C5: the i-th dispatch of a call goes to credential startIndex + i - 1, so
\* no credential is dispatched to twice; every rate-limit error is followed
\* at once by a call of _rotate; and the loop test never depends on R: it has
\* the value it has for R = 0.
C5_RotateOnFirstRateLimit ==
    /\ \A i \in 1..NumDispatches : DispatchKeys[i] = _keys[startIndex + i]
    /\ \A i, j \in 1..NumDispatches : DispatchKeys[i] = DispatchKeys[j] => i = j
    /\ \A i \in 1..Len(trace) :
          IsRateLimitedDispatch(trace[i]) =>
              \/ i = Len(trace) /\ pc[caller] \in {"except", "rotate", "rot_set", "rot_build"}
              \/ i < Len(trace) /\ IsRotate(trace[i + 1])
    /\ \A t \in Callers :
          pc[t] = "loop" => ((attempts[t] < total_possible[t]) <=> (attempts[t] < PoolSize))

C5_Witness ==
    /\ CallDone /\ max_retries_per_key >= 1
    /\ NumRateLimited >= 2 /\ NumDispatches = NumRateLimited + 1

\* ------------------------------------------------------------------------
\* C6
\* ------------------------------------------------------------------------
InCallRateLimited(k) ==
    \E i \in 1..Len(trace) : IsRateLimitedDispatch(trace[i]) /\ trace[i].key = _keys[k]

\* C6 as stated: AllKeysExhaustedError means every credential of the pool was
\* dispatched to and rate-limited during that same call.
C6_Original ==
    CallExhausted => \A k \in 1..PoolSize : InCallRateLimited(k)

\* C6 amended: AllKeysExhaustedError means every credential from the cursor
\* position at the start of the call to the last one was dispatched to and
\* rate-limited during that call; the credentials before that position were
\* rate-limited in earlier calls since construction or the last reset.
C6_Amended ==
    CallExhausted =>
        /\ \A k \in (startIndex + 1)..PoolSize : InCallRateLimited(k)
        /\ CallIsLatest => \A k \in 1..PoolSize : _keys[k] \in rateLimited

C6_Witness ==
    /\ CallExhausted /\ CallIsLatest
    /\ startIndex >= 1 /\ startIndex < PoolSize - 1

\* ------------------------------------------------------------------------
\* C7
\* ------------------------------------------------------------------------
\* C7: after reset the cursor is 0 and the handle is bound to the first
\* credential, and the first dispatch of the next call goes to pool[0].
C7_ResetStartsFromFirst ==
    /\ lastOp = "reset" => (_current_index = 0 /\ _llm = _build_llm(_keys[1]))
    /\ (startOp = "reset" /\ Len(trace) >= 1) =>
          (IsDispatch(trace[1]) /\ trace[1].key = _keys[1])

C7_Witness ==
    /\ startOp = "reset" /\ resetFrom >= 1
    /\ Len(trace) >= 1 /\ IsDispatch(trace[1])

\* ------------------------------------------------------------------------
\* C8
\* ------------------------------------------------------------------------
CursorStep ==
    /\ \/ _current_index' = _current_index
       \/ /\ _current_index' = _current_index + 1
          /\ \E t \in Callers : pc[t] = "rot_set" /\ pc'[t] = "rot_build"
       \/ /\ _current_index' = 0
          /\ Sequential /\ lastOp' = "reset" /\ resetFrom' = _current_index
    /\ \A t \in Callers :
          (pc[t] = "rotate" /\ _current_index = PoolSize - 1) =>
              /\ pc'[t] = "rotret" /\ rotated'[t] = FALSE
              /\ _current_index' = _current_index
              /\ _llm' = _llm

\* C8: the cursor starts at 0 and stays within 0..N-1; a step leaves it
\* alone, adds one to it (the assignment in _rotate) or sets it to 0 (reset);
\* a call of _rotate at N-1 returns False and changes neither cursor nor
\* handle.
C8_CursorInRange ==
    /\ _current_index = 0
    /\ [](_current_index \in 0..(PoolSize - 1))
    /\ [][CursorStep]_vars

C8_Witness ==
    /\ pc[caller] = "rotret" /\ ~ rotated[caller]
    /\ PoolSize >= 2 /\ _current_index = PoolSize - 1
    /\ startIndex = 0

\* ------------------------------------------------------------------------
\* C9
\* ------------------------------------------------------------------------
\* C9: the loop test never fails and no call ends with the raise after the
\* loop; a finished call ended by a return, the re-raise or the raise after a
\* failed rotation.
C9_SafetyNetUnreachable ==
    /\ outcome # SafetyNet
    /\ \A t \in Callers : pc[t] = "loop" => attempts[t] < total_possible[t]
    /\ CallDone =>
          \/ outcome.kind = "text"
          \/ outcome.kind = "error"
          \/ outcome.kind = "AllKeysExhaustedError" /\ outcome.val = "rate-limited"

\* the budget is used up to the last attempt, and the call still ends in the loop
C9_Witness ==
    /\ CallExhausted /\ outcome.val = "rate-limited"
    /\ max_retries_per_key = 0 /\ startIndex = 0 /\ PoolSize >= 2
    /\ NumRateLimited = PoolSize * (max_retries_per_key + 1)

\* ------------------------------------------------------------------------
\* C10
\* ------------------------------------------------------------------------
\* the errors reached from exc through __cause__, or __context__ where there
\* is no __cause__, exc included
RECURSIVE CauseChain(_)
CauseChain(e) ==
    {e} \cup (IF CauseOf(e) # <<>> THEN CauseChain(CauseOf(e)[1]) ELSE {})

ClaimedTextMatch(s) ==
    \/ Contains(s, Lit429)
    \/ Contains(s, LitTooManyRequests)
    \/ (Contains(s, LitRate) /\ Contains(s, LitLimit))

\* C10: the classifier returns True exactly when the lower-cased text of the
\* error or of an error in its chain of causes contains "429", or "too many
\* requests", or both "rate" and "limit".
C10_ClassifierExact ==
    cls_out # "none" =>
        ((cls_out = "True") <=> (\E e \in CauseChain(cls_in) : ClaimedTextMatch(Lower(e.text))))

\* a match found two causes down, under two texts that do not match
C10_Witness ==
    /\ cls_out = "True"
    /\ ~ ClaimedTextMatch(Lower(cls_in.text))
    /\ CauseOf(cls_in) # <<>>
    /\ ~ ClaimedTextMatch(Lower(CauseOf(cls_in)[1].text))
    /\ CauseOf(CauseOf(cls_in)[1]) # <<>>


\* ------------------------------------------------------------------------
\* Construction from the environment
\* ------------------------------------------------------------------------
NoIndex == 0 - 1

\* the names a test environment defines or leaves out
ConstructNames == {NameBase, Name1, NameX}

\* before GroqKeyManager(...) is evaluated: no instance, no attribute
InitConstruct ==
    /\ environ \in [ConstructNames -> {<<>>} \cup {<<v>> : v \in EnvValues}]
    /\ constructed = "no"
    /\ _keys = <<>>
    /\ max_retries_per_key \in 0..MaxRetries
    /\ _current_index = NoIndex
    /\ _llm = NoHandle
    /\ InitCall
    /\ cls_in = NoException
    /\ cls_out = "none"
    /\ an = AnIdle
    /\ wf = WfIdle
    /\ skip_in = <<>>
    /\ skip_out = "none"

\* GroqKeyManager.__init__: load the keys, raise ValueError if there are none,
\* else set the cursor and build the handle
Construct ==
    /\ constructed = "no"
    /\ _keys' = _load_keys(environ)
    /\ IF _keys' = <<>>
       THEN /\ constructed' = "ValueError"
            /\ UNCHANGED <<_current_index, _llm>>
       ELSE /\ _current_index' = 0
            /\ _llm' = _build_llm(_keys'[0 + 1])
            /\ constructed' = "ok"
    /\ UNCHANGED <<max_retries_per_key, locals, hist, cls, environ, web, scan>>

NextConstruct == Construct \/ Next

SpecConstruct == InitConstruct /\ [][NextConstruct]_vars

\* the credentials the environment offers: the cleaned, non-blank values of
\* the names GROQ_API_KEY and GROQ_API_KEY_<digits>
Discovered(env) ==
    {Join(Clean(env[n][1])) : n \in {m \in Defined(env) : PatternMatches(m)}} \ {""}

\* C11: construction with zero discovered credentials ends in ValueError with
\* no cursor and no handle, and no call is ever dispatched on it; a constructed
\* instance has a non-empty pool, which holds exactly the discovered
\* credentials, with the cursor on the first and the handle built from it.
C11_NoCredentialsNoInstance ==
    /\ constructed # "no" =>
          (constructed = "ValueError" <=> Discovered(environ) = {})
    /\ constructed = "ValueError" =>
          /\ _current_index = NoIndex
          /\ _llm = NoHandle
          /\ trace = <<>>
          /\ lastOp = "init"
          /\ \A t \in Callers : pc[t] = "idle"
    /\ constructed = "ok" =>
          /\ Len(_keys) >= 1
          /\ {_keys[i] : i \in 1..Len(_keys)} = Discovered(environ)
          /\ _current_index \in 0..(Len(_keys) - 1)
          /\ lastOp = "init" => _current_index = 0 /\ _llm = _build_llm(_keys[1])

\* the environment defines GROQ_API_KEY, but blank, and nothing else usable
C11_Witness ==
    /\ constructed = "ValueError"
    /\ environ[NameBase] = <<ValBlank>>
    /\ environ[Name1] = <<ValQuotesOnly>>
    /\ environ[NameX] = <<ValA>>


\* ------------------------------------------------------------------------
\* The compiled workflow and the /analyze handler
\* ------------------------------------------------------------------------
MaxFiles == 2

\* what the handler can find in an uploaded file: a name not ending in ".py",
\* a ".py" file in an excluded folder, bytes that are not UTF-8, Python source
FileKinds == {"other", "skipped", "undecodable", "py"}

\* how a key_manager.invoke call of a node ends: a response, the
\* AllKeysExhaustedError, or another error
InvokeOutcomes == {"ok", "AllKeysExhaustedError", "error"}

NodeState(o) == IF o = "ok" THEN "ok" ELSE "raised"
FirstError(o) == IF wf.error = "none" /\ o # "ok" THEN o ELSE wf.error
Running == {a \in Agents : wf.agent[a] = "running"}

\* langgraph_app.invoke({"code": ...}): the five nodes with an edge from START
\* are scheduled together
WfStart == [WfIdle EXCEPT !.stage = "agents"]

\* a request arrives with its uploaded files
AnalyzeStart ==
    /\ an.pc \in {"idle", "done"}
    /\ \E n \in 0..MaxFiles : an' = [AnIdle EXCEPT !.pc = "loop", !.n = n]
    /\ UNCHANGED <<mgr, locals, hist, cls, boot, wf, scan>>

\* one turn of "for file in files" up to the call of the workflow
AnalyzeFile ==
    /\ an.pc = "loop"
    /\ an.i < an.n
    /\ \E kind \in FileKinds :
          CASE kind = "other" ->
                  /\ an' = [an EXCEPT !.i = an.i + 1]
                  /\ UNCHANGED wf
            [] kind = "skipped" ->
                  /\ an' = [an EXCEPT !.i = an.i + 1,
                                      !.skipped_count = an.skipped_count + 1]
                  /\ UNCHANGED wf
            [] kind = "undecodable" ->
                  /\ an' = [an EXCEPT !.i = an.i + 1,
                                      !.read = Append(an.read, an.i),
                                      !.results = Append(an.results,
                                                    [file |-> an.i, kind |-> "error"])]
                  /\ UNCHANGED wf
            [] kind = "py" ->
                  /\ an' = [an EXCEPT !.pc = "workflow",
                                      !.read = Append(an.read, an.i),
                                      !.passed = Append(an.passed, an.i)]
                  /\ wf' = WfStart
    /\ UNCHANGED <<mgr, locals, hist, cls, boot, scan>>

\* an analysis node begins: its key_manager.invoke call is in progress
AgentStart(a) ==
    /\ wf.stage = "agents"
    /\ wf.agent[a] = "pending"
    /\ wf' = [wf EXCEPT !.agent[a] = "running"]
    /\ UNCHANGED <<mgr, locals, hist, cls, boot, an, scan>>

\* an analysis node ends: its invoke call returned or raised
AgentFinish(a) ==
    /\ wf.stage = "agents"
    /\ wf.agent[a] = "running"
    /\ \E o \in InvokeOutcomes :
          wf' = [wf EXCEPT !.agent[a] = NodeState(o), !.error = FirstError(o)]
    /\ UNCHANGED <<mgr, locals, hist, cls, boot, an, scan>>

\* a node raised: once no node is running any more the run ends with the
\* first error; nodes not yet begun are cancelled
WfRaise ==
    /\ wf.stage = "agents"
    /\ wf.error # "none"
    /\ Running = {}
    /\ wf' = [wf EXCEPT !.stage = "failed"]
    /\ UNCHANGED <<mgr, locals, hist, cls, boot, an, scan>>

\* a report node that waits for one of its five incoming edges only
ReportStartEarly ==
    /\ wf.stage = "agents"
    /\ wf.error = "none"
    /\ \E a \in Agents : wf.agent[a] = "ok"
    /\ wf' = [wf EXCEPT !.stage = "report", !.report = "running",
                        !.reports = wf.reports + 1]
    /\ UNCHANGED <<mgr, locals, hist, cls, boot, an, scan>>

\* the five edges into "report": it runs in the step after all five ended
ReportStart ==
    /\ wf.stage = "agents"
    /\ \A a \in Agents : wf.agent[a] = "ok"
    /\ wf' = [wf EXCEPT !.stage = "report", !.report = "running",
                        !.reports = wf.reports + 1]
    /\ UNCHANGED <<mgr, locals, hist, cls, boot, an, scan>>

\* report_agent ends: its invoke call returned or raised
ReportFinish ==
    /\ wf.stage = "report"
    /\ wf.report = "running"
    /\ \E o \in InvokeOutcomes :
          wf' = [wf EXCEPT !.report = NodeState(o), !.error = FirstError(o),
                           !.stage = IF o = "ok" THEN "report" ELSE "failed"]
    /\ UNCHANGED <<mgr, locals, hist, cls, boot, an, scan>>

\* the edge report -> fixer
FixerStart ==
    /\ wf.stage = "report"
    /\ wf.report = "ok"
    /\ wf' = [wf EXCEPT !.stage = "fixer", !.fixer = "running"]
    /\ UNCHANGED <<mgr, locals, hist, cls, boot, an, scan>>

\* code_fixer_agent ends; the edge fixer -> END
FixerFinish ==
    /\ wf.stage = "fixer"
    /\ wf.fixer = "running"
    /\ \E o \in InvokeOutcomes :
          wf' = [wf EXCEPT !.fixer = NodeState(o), !.error = FirstError(o),
                           !.stage = IF o = "ok" THEN "done" ELSE "failed"]
    /\ UNCHANGED <<mgr, locals, hist, cls, boot, an, scan>>

\* a handler that records the exhaustion and goes on with the next file
AnalyzeResultNoBreak ==
    /\ an.pc = "workflow"
    /\ wf.stage \in {"done", "failed"}
    /\ an' = [an EXCEPT !.pc = "loop", !.i = an.i + 1,
                        !.results = Append(an.results,
                            [file |-> an.i,
                             kind |-> IF wf.stage = "done" THEN "report"
                                      ELSE IF wf.error = "AllKeysExhaustedError"
                                           THEN "exhausted" ELSE "error"])]
    /\ wf' = WfIdle
    /\ UNCHANGED <<mgr, locals, hist, cls, boot, scan>>

\* the workflow returned or raised: results.append(...), and break on
\* AllKeysExhaustedError
AnalyzeResult ==
    /\ an.pc = "workflow"
    /\ wf.stage \in {"done", "failed"}
    /\ IF wf.stage = "done"
       THEN an' = [an EXCEPT !.pc = "loop", !.i = an.i + 1,
                             !.results = Append(an.results,
                                           [file |-> an.i, kind |-> "report"])]
       ELSE IF wf.error = "AllKeysExhaustedError"
            THEN an' = [an EXCEPT !.pc = "after",
                                  !.results = Append(an.results,
                                                [file |-> an.i, kind |-> "exhausted"])]
            ELSE an' = [an EXCEPT !.pc = "loop", !.i = an.i + 1,
                                  !.results = Append(an.results,
                                                [file |-> an.i, kind |-> "error"])]
    /\ wf' = WfIdle
    /\ UNCHANGED <<mgr, locals, hist, cls, boot, scan>>

\* after the loop: HTTP 400 if there is no result, else the results
AnalyzeEnd ==
    /\ \/ an.pc = "loop" /\ an.i = an.n
       \/ an.pc = "after"
    /\ an' = [an EXCEPT !.pc = "done",
                        !.response = IF an.results = <<>> THEN "HTTP400" ELSE "results"]
    /\ UNCHANGED <<mgr, locals, hist, cls, boot, wf, scan>>

\* the application after start-up: key_manager constructed, no request yet
InitApp ==
    /\ _keys = SubSeq(CredNames, 1, 1)
    /\ max_retries_per_key = MaxRetries
    /\ InitRest
    /\ cls_in = NoException
    /\ cls_out = "none"
    /\ InitStarted

NextApp ==
    \/ AnalyzeStart
    \/ AnalyzeFile
    \/ \E a \in Agents : AgentStart(a) \/ AgentFinish(a)
    \/ WfRaise
    \/ ReportStart
    \/ ReportFinish
    \/ FixerStart
    \/ FixerFinish
    \/ AnalyzeResult
    \/ AnalyzeEnd

SpecApp == InitApp /\ [][NextApp]_vars

Files(seq) == {seq[k] : k \in 1..Len(seq)}
Increasing(seq) == \A j, k \in 1..Len(seq) : j < k => seq[j] < seq[k]
ResultFiles == [k \in 1..Len(an.results) |-> an.results[k].file]
IsExhaustedEntry(e) == e.kind = "exhausted"
IsErrorEntry(e) == e.kind = "error"

\* the handler takes the result of the workflow run of the current file
TakesResult == an.pc = "workflow" /\ an'.results # an.results

\* C12: when the workflow run of a file ends with AllKeysExhaustedError the
\* handler records one entry for the file and neither reads nor passes on any
\* later file; when it ends with another error the handler records one error
\* entry and goes on with the next file; entries are in upload order, at most
\* one per file.
C12_BatchStopsOnExhaustion ==
    /\ [](/\ Increasing(ResultFiles)
          /\ \A k \in 1..Len(an.results) :
                IsExhaustedEntry(an.results[k]) =>
                   /\ k = Len(an.results)
                   /\ an.pc \in {"after", "done"}
                   /\ an.i = an.results[k].file
                   /\ \A f \in Files(an.read) \cup Files(an.passed) :
                         f <= an.results[k].file
          /\ an.pc \in {"loop", "workflow"} =>
                \A k \in 1..Len(an.results) : ~ IsExhaustedEntry(an.results[k]))
    /\ [][TakesResult =>
            /\ Len(an'.results) = Len(an.results) + 1
            /\ an'.results[Len(an'.results)].file = an.i
            /\ SubSeq(an'.results, 1, Len(an.results)) = an.results
            /\ (wf.error = "AllKeysExhaustedError") <=>
                   IsExhaustedEntry(an'.results[Len(an'.results)])
            /\ wf.error = "AllKeysExhaustedError" => an'.pc = "after"
            /\ wf.error = "error" =>
                   /\ IsErrorEntry(an'.results[Len(an'.results)])
                   /\ an'.pc = "loop"
                   /\ an'.i = an.i + 1]_vars
    /\ [][an.pc = "after" => an'.pc = "done" /\ an'.read = an.read
                                /\ an'.passed = an.passed]_vars

\* the first file of two ended with AllKeysExhaustedError and the response
\* was sent with that single entry
C12_Witness ==
    /\ an.pc = "done"
    /\ an.n = 2
    /\ Len(an.results) = 1
    /\ IsExhaustedEntry(an.results[1])
    /\ an.results[1].file = 0
    /\ an.passed = <<0>>


\* ------------------------------------------------------------------------
\* C13
\* ------------------------------------------------------------------------
\* the key_manager.invoke calls of the workflow's nodes that have begun and
\* not ended
InvokesInProgress ==
    Cardinality(Running)
      + (IF wf.report = "running" THEN 1 ELSE 0)
      + (IF wf.fixer = "running" THEN 1 ELSE 0)

\* C13: the workflow never has two invoke calls in progress on the shared
\* key_manager at the same time.
C13_OneInvokeAtATime == InvokesInProgress <= 1


\* ------------------------------------------------------------------------
\* scan_config: should_skip_file
\* ------------------------------------------------------------------------
MaxPieces == 4

\* the default list (no SKIP_FOLDERS override in the environment)
SKIP_FOLDERS ==
    <<<<"v","e","n","v">>,
      <<".","v","e","n","v">>,
      <<"e","n","v">>,
      <<".","e","n","v">>,
      <<"v","i","r","t","u","a","l","e","n","v">>,
      <<"c","o","n","d","a","-","e","n","v">>,
      <<"_","_","p","y","c","a","c","h","e","_","_">>,
      <<".","e","g","g","s">>,
      <<"e","g","g","-","i","n","f","o">>,
      <<"d","i","s","t">>,
      <<"b","u","i","l","d">>,
      <<"s","d","i","s","t">>,
      <<"s","i","t","e","-","p","a","c","k","a","g","e","s">>,
      <<"l","i","b">>,
      <<"L","i","b">>,
      <<"l","i","b","6","4">>,
      <<"S","c","r","i","p","t","s">>,
      <<"I","n","c","l","u","d","e">>,
      <<"s","h","a","r","e">>,
      <<"n","o","d","e","_","m","o","d","u","l","e","s">>,
      <<".","g","i","t">>,
      <<".","s","v","n">>,
      <<".","h","g">>,
      <<".","i","d","e","a">>,
      <<".","v","s","c","o","d","e">>,
      <<".","t","o","x">>,
      <<".","n","o","x">>,
      <<".","m","y","p","y","_","c","a","c","h","e">>,
      <<".","p","y","t","e","s","t","_","c","a","c","h","e">>,
      <<".","r","u","f","f","_","c","a","c","h","e">>,
      <<"h","t","m","l","c","o","v">>,
      <<".","c","o","v","e","r","a","g","e">>,
      <<"m","i","g","r","a","t","i","o","n","s">>,
      <<".","t","e","r","r","a","f","o","r","m">>>>

\* _get_skip_set
_get_skip_set == {Lower(SKIP_FOLDERS[k]) : k \in 1..Len(SKIP_FOLDERS)}

\* the pieces a test path is made of
PieceSlash == <<"/">>
PieceBackslash == <<"\\">>
PieceVenv == <<"V","e","n","v">>
PieceMy == <<"m","y">>
PieceDotGit == <<".","g","i","t">>
PieceLib == <<"l","i","b">>
PieceAppPy == <<"a","p","p",".","p","y">>
Pieces == {PieceSlash, PieceBackslash, PieceVenv, PieceMy, PieceDotGit, PieceLib, PieceAppPy}

RECURSIVE Flatten(_)
Flatten(pieces) == IF pieces = <<>> THEN <<>> ELSE Head(pieces) \o Flatten(Tail(pieces))

\* relative_path.replace("\\", "/")
Normalise(path) == [k \in 1..Len(path) |-> IF path[k] = "\\" THEN "/" ELSE path[k]]

\* str.split("/"), from the part being read
RECURSIVE SplitFrom(_, _)
SplitFrom(path, part) ==
    IF path = <<>> THEN <<part>>
    ELSE IF Head(path) = "/" THEN <<part>> \o SplitFrom(Tail(path), <<>>)
    ELSE SplitFrom(Tail(path), Append(part, Head(path)))
Split(path) == SplitFrom(path, <<>>)

\* str.endswith
EndsWith(text, suffix) ==
    /\ Len(suffix) <= Len(text)
    /\ SubSeq(text, Len(text) - Len(suffix) + 1, Len(text)) = suffix

\* "-" in s or "." in s
HasDashOrDot(name) == \E k \in 1..Len(name) : name[k] \in {"-", "."}

\* a loop over every part, the file name included
AllParts(parts) == parts

\* parts[:-1]
DirectoryParts(parts) == SubSeq(parts, 1, Len(parts) - 1)

\* for part in parts[:-1]: ... return True; after the loop: return False
RECURSIVE SkipLoop(_)
SkipLoop(parts) ==
    IF parts = <<>> THEN FALSE
    ELSE LET part == Lower(Head(parts))
         IN IF part \in _get_skip_set THEN TRUE
            ELSE IF \E name \in {n \in _get_skip_set : HasDashOrDot(n)} : EndsWith(part, name)
                 THEN TRUE
                 ELSE SkipLoop(Tail(parts))

should_skip_file(relative_path) ==
    SkipLoop(DirectoryParts(Split(Normalise(relative_path))))

InitSkip ==
    /\ _keys = SubSeq(CredNames, 1, 1)
    /\ max_retries_per_key = MaxRetries
    /\ InitRest
    /\ cls_in = NoException
    /\ cls_out = "none"
    /\ InitStarted

\* the path grows by one piece
AppendPiece ==
    /\ skip_out = "none"
    /\ Len(skip_in) < MaxPieces
    /\ \E piece \in Pieces : skip_in' = Append(skip_in, piece)
    /\ UNCHANGED <<mgr, locals, hist, cls, boot, web, skip_out>>

\* should_skip_file(path)
ShouldSkip ==
    /\ skip_out = "none"
    /\ skip_out' = IF should_skip_file(Flatten(skip_in)) THEN "True" ELSE "False"
    /\ UNCHANGED <<mgr, locals, hist, cls, boot, web, skip_in>>

NextSkip == AppendPiece \/ ShouldSkip

SpecSkip == InitSkip /\ [][NextSkip]_vars

Path == Flatten(skip_in)
Separators == {"/", "\\"}

\* the directory components of a path: the maximal runs without a separator
\* that a separator follows
DirComponents(path) ==
    {SubSeq(path, i, j - 1) : <<i, j>> \in
        {ij \in (1..Len(path)) \X (1..Len(path)) :
            /\ ij[1] <= ij[2]
            /\ path[ij[2]] \in Separators
            /\ ij[1] = 1 \/ path[ij[1] - 1] \in Separators
            /\ \A k \in ij[1]..(ij[2] - 1) : path[k] \notin Separators}}

\* the component equals a folder name of the list, case-insensitively
EqualsSkipName(c) == \E k \in 1..Len(SKIP_FOLDERS) : Lower(c) = Lower(SKIP_FOLDERS[k])

\* the component ends, case-insensitively, with a folder name of the list
\* that contains "-" or "."
EndsWithMarkedSkipName(c) ==
    \E k \in 1..Len(SKIP_FOLDERS) :
        /\ HasDashOrDot(SKIP_FOLDERS[k])
        /\ EndsWith(Lower(c), Lower(SKIP_FOLDERS[k]))

\* C14 as stated: True if and only if a directory component equals a folder
\* name of SKIP_FOLDERS, case-insensitively.
C14_Original ==
    skip_out # "none" =>
        (skip_out = "True" <=> \E c \in DirComponents(Path) : EqualsSkipName(c))

\* C14 amended: True if and only if a directory component equals a folder
\* name of SKIP_FOLDERS or ends with one that contains "-" or ".",
\* case-insensitively; the file name never causes a skip.
C14_Amended ==
    skip_out # "none" =>
        /\ skip_out = "True" <=>
              \E c \in DirComponents(Path) : EqualsSkipName(c) \/ EndsWithMarkedSkipName(c)
        /\ (\A k \in 1..Len(Path) : Path[k] \notin Separators) => skip_out = "False"

\* "my.git/app.py" is skipped though no component equals a folder name
C14_Witness ==
    /\ skip_in = <<PieceMy, PieceDotGit, PieceSlash, PieceAppPy>>
    /\ skip_out = "True"


\* ------------------------------------------------------------------------
\* C15
\* ------------------------------------------------------------------------
DecimalDigits == <<"0","1","2","3","4","5","6","7","8","9">>

\* str(n) for n >= 0
RECURSIVE Str(_)
Str(n) ==
    IF n < Len(DecimalDigits) THEN DecimalDigits[n + 1]
    ELSE Str(n \div Len(DecimalDigits)) \o DecimalDigits[(n % Len(DecimalDigits)) + 1]

\* current_key_label: f"Key #{self._current_index + 1}/{len(self._keys)}"
current_key_label == "Key #" \o Str(_current_index + 1) \o "/" \o Str(Len(_keys))

\* _rotate has set the cursor and not yet rebuilt the handle
MidRotation == \E t \in Callers : pc[t] = "rot_build"

\* C15: under sequential use, whenever no rotation is mid-execution (after
\* construction and after every completed invoke, rotation or reset) the
\* handle is the one built from pool[cursor]; a dispatch in progress uses the
\* credential at the cursor; the label names the position of the handle's
\* credential in the pool, counted from one, and the pool size.
C15_HandleFollowsCursor ==
    /\ _current_index \in 0..(Len(_keys) - 1)
    /\ ~ MidRotation =>
          /\ _llm = _build_llm(_keys[_current_index + 1])
          /\ \E i \in 1..Len(_keys) :
                /\ _keys[i] = _llm.api_key
                /\ current_key_label = "Key #" \o Str(i) \o "/" \o Str(Len(_keys))
    /\ \A t \in Callers :
          pc[t] = "wait" => handle[t].api_key = _keys[_current_index + 1]

\* a dispatch to the second credential is in progress after one rotation
C15_Witness ==
    /\ pc[caller] = "wait"
    /\ NumAdvances = 1
    /\ _current_index = 1
    /\ handle[caller].api_key = _keys[2]
    /\ current_key_label = "Key #2/3"


\* ------------------------------------------------------------------------
\* C16
\* ------------------------------------------------------------------------
LastKey == _keys[PoolSize]

\* a call ended with AllKeysExhaustedError and reset() was not called since
ExhaustedSinceReset == LastKey \in rateLimited /\ Sequential

\* a step that begins an invoke call
CallBegins == \E t \in Callers : pc[t] = "idle" /\ pc'[t] = "loop"

\* C16: invoke does not restore the cursor. A call that starts with the cursor
\* at c dispatches only to credentials c..N-1, at most N-c times. After a call
\* has ended with AllKeysExhaustedError the cursor is N-1 and stays there
\* until reset(); every call begun meanwhile starts at N-1, dispatches only to
\* the last credential and, if that dispatch is rate-limited, ends with
\* AllKeysExhaustedError after exactly one dispatch.
C16_CursorNotRestored ==
    /\ [](/\ \A i \in 1..NumDispatches :
                \E j \in (startIndex + 1)..PoolSize : DispatchKeys[i] = _keys[j]
          /\ NumDispatches <= PoolSize - startIndex
          /\ (CallExhausted /\ CallIsLatest) => LastKey \in rateLimited
          /\ LastKey \in rateLimited => _current_index = PoolSize - 1
          /\ startIndex = PoolSize - 1 =>
                /\ \A i \in 1..NumDispatches : DispatchKeys[i] = LastKey
                /\ (CallDone /\ NumRateLimited >= 1) =>
                      NumDispatches = 1 /\ CallExhausted)
    /\ [][(ExhaustedSinceReset /\ CallBegins) => startIndex' = PoolSize - 1]_vars

\* a call begun after an exhaustion, with no reset in between, has its
\* dispatch to the last credential in progress, in a pool of three
C16_Witness ==
    /\ pc[caller] = "wait"
    /\ trace = <<>>
    /\ startOp = "invoke"
    /\ LastKey \in rateLimited
    /\ PoolSize = 3
    /\ handle[caller].api_key = LastKey


\* ------------------------------------------------------------------------
\* C17
\* ------------------------------------------------------------------------
\* the steps of the invoke call of t once it has begun; at "wait" the
\* dispatch returns or raises
CallStep(t) ==
    \/ LoopTest(t)
    \/ Dispatch(t)
    \/ DispatchReturn(t)
    \/ DispatchRaise(t)
    \/ Except(t)
    \/ RotateCheck(t)
    \/ RotateSetIndex(t)
    \/ RotateBuild(t)
    \/ AfterRotate(t)
    \/ Sleep(t)

\* a call that has begun keeps running, and every dispatch returns or raises
SpecLive == Spec /\ \A t \in Callers : WF_vars(CallStep(t))

LastEvent == trace[Len(trace)]

\* C17: every invoke call that has begun ends, and it ends with the response
\* text of its last dispatch, with the non-rate-limit error its last dispatch
\* raised, or with AllKeysExhaustedError whose cause is the rate-limit error
\* its last dispatch raised; the error it raises is never a rate-limit error.
C17_TerminatesThreeWays ==
    /\ \A t \in Callers : (pc[t] # "idle") ~> (pc[t] = "idle")
    /\ [](CallDone =>
            /\ outcome.kind \in {"text", "error", "AllKeysExhaustedError"}
            /\ outcome.kind = "text" =>
                  /\ LastEvent = EvDispatchOk([api_key |-> LastEvent.key], outcome.val)
                  /\ outcome.val \in Responses
            /\ outcome.kind = "error" =>
                  /\ IsOtherErrorDispatch(LastEvent)
                  /\ outcome.exc = LastEvent.exc
                  /\ outcome.exc[1].by = LastEvent.key
                  /\ ~ _is_rate_limit_error(outcome.exc[1].err)
            /\ outcome.kind = "AllKeysExhaustedError" =>
                  /\ outcome.exc # <<>>
                  /\ _is_rate_limit_error(outcome.exc[1].err)
                  /\ \E i \in 1..Len(trace) :
                        /\ IsRateLimitedDispatch(trace[i])
                        /\ trace[i].exc = outcome.exc
                        /\ \A j \in (i + 1)..Len(trace) : ~ IsDispatch(trace[j]))

\* a call ended with AllKeysExhaustedError after two rotations
C17_Witness ==
    /\ CallExhausted
    /\ NumAdvances = 2
    /\ NumRateLimited = 3
    /\ _is_rate_limit_error(outcome.exc[1].err)


\* ------------------------------------------------------------------------
\* C18
\* ------------------------------------------------------------------------
IsRotateFalse(e) == e.ev = "rotate" /\ e.res = "False"
IsFinalDispatch(e) == e.ev = "dispatch" /\ (e.res = "ok" \/ IsOtherErrorDispatch(e))

\* C18: in the record of one invoke call every cooldown directly follows a
\* successful rotation and every successful rotation is directly followed by
\* one cooldown and then by the next dispatch; the record begins with a
\* dispatch; nothing follows a success, a non-rate-limit error or a failed
\* rotation; so a finished call has as many cooldowns as rotations, one less
\* than its dispatches.
C18_CooldownAfterRotationOnly ==
    /\ trace # <<>> => IsDispatch(trace[1])
    /\ \A i \in 1..Len(trace) :
          /\ IsSleep(trace[i]) =>
                /\ i > 1
                /\ IsRotateTrue(trace[i - 1])
                /\ i < Len(trace) => IsDispatch(trace[i + 1])
          /\ IsRotateTrue(trace[i]) =>
                IF i < Len(trace) THEN IsSleep(trace[i + 1])
                ELSE pc[caller] \in {"rotret", "sleep"}
          /\ (IsRateLimitedDispatch(trace[i]) /\ i < Len(trace)) => IsRotate(trace[i + 1])
          /\ (IsFinalDispatch(trace[i]) \/ IsRotateFalse(trace[i])) => i = Len(trace)
    /\ NumSleeps <= NumAdvances
    /\ NumAdvances <= NumSleeps + 1
    /\ CallDone =>
          /\ NumSleeps = NumAdvances
          /\ NumSleeps = NumDispatches - 1
          /\ CallExhausted => IsRotateFalse(trace[Len(trace)])

\* a call that made three dispatches and took two cooldowns has ended
C18_Witness ==
    /\ CallDone
    /\ NumDispatches = 3
    /\ NumSleeps = 2
    /\ outcome.kind = "text"


\* ------------------------------------------------------------------------
\* C19: invoke calls that interleave
\* ------------------------------------------------------------------------
\* the callers are the analysis nodes the workflow starts together: a call
\* begins whatever the other callers are doing; nobody calls reset
Interleaved == {t \in Callers : t <= 1 + 1}

\* the manager of static_backend with the largest pool
InitConcurrent ==
    /\ _keys = SubSeq(CredNames, 1, MaxKeys)
    /\ max_retries_per_key = MaxRetries
    /\ InitRest
    /\ cls_in = NoException
    /\ cls_out = "none"
    /\ InitStarted

NextConcurrent == \E t \in Interleaved : InvokeBegin(t) \/ CallStep(t)

SpecConcurrent == InitConcurrent /\ [][NextConcurrent]_vars

\* the cursor stays within the pool
C19_CursorInRange == _current_index \in 0..(PoolSize - 1)

\* the handle is bound to pool[cursor] whenever no rotation is mid-execution
C19_HandleAtCursor == ~ MidRotation => _llm = _build_llm(_keys[_current_index + 1])

\* a call raises AllKeysExhaustedError only for a rate-limit error that the
\* last credential raised to it
C19_ExhaustedOnLastOnly ==
    (outcome.kind = "AllKeysExhaustedError" /\ outcome.exc # <<>>) =>
        outcome.exc[1].by = LastKey

\* C19: when invoke calls on one manager interleave, the cursor never
\* decreases and stays within 0..N-1, the handle is bound to pool[cursor]
\* whenever no rotation is mid-execution, and a call raises
\* AllKeysExhaustedError only after it received a rate-limit error from the
\* last credential.
C19_InterleavedCallsKeepOrder ==
    /\ [](C19_CursorInRange /\ C19_HandleAtCursor /\ C19_ExhaustedOnLastOnly)
    /\ [][_current_index' >= _current_index]_vars


\* ------------------------------------------------------------------------
\* C20
\* ------------------------------------------------------------------------
AgentRaised == \E a \in Agents : wf.agent[a] = "raised"
NodeRaised == AgentRaised \/ wf.report = "raised" \/ wf.fixer = "raised"

\* C20: in a run of the workflow the report node begins only when all five
\* analysis nodes have ended without an error, and begins once; the fixer
\* node begins only when the report node has ended without an error; once a
\* node has raised no later stage begins, the run ends as failed with the
\* first error, and the handler records that error for the file.
C20_StagesInOrder ==
    /\ [](/\ wf.report # "pending" => \A a \in Agents : wf.agent[a] = "ok"
          /\ wf.report # "pending" <=> wf.reports = 1
          /\ wf.reports <= 1
          /\ wf.fixer # "pending" => wf.report = "ok"
          /\ AgentRaised => /\ wf.report = "pending"
                            /\ wf.fixer = "pending"
                            /\ wf.stage \in {"agents", "failed"}
          /\ wf.report = "raised" => wf.fixer = "pending" /\ wf.stage = "failed"
          /\ NodeRaised <=> wf.error # "none"
          /\ wf.stage = "failed" => NodeRaised
          /\ wf.stage = "done" =>
                /\ ~ NodeRaised
                /\ \A a \in Agents : wf.agent[a] = "ok"
                /\ wf.report = "ok"
                /\ wf.fixer = "ok")
    /\ [][(wf.stage = "failed" /\ wf'.stage # "failed") =>
            /\ TakesResult
            /\ an'.results[Len(an'.results)].kind =
                  (IF wf.error = "AllKeysExhaustedError" THEN "exhausted" ELSE "error")]_vars
    /\ [][(wf.stage \in {"report", "fixer", "done"} /\ wf'.stage = "failed") =>
            (wf'.report = "raised" \/ wf'.fixer = "raised")]_vars

\* the fixer node is running after the five analysis nodes and the report node
C20_Witness ==
    /\ wf.stage = "fixer"
    /\ wf.fixer = "running"
    /\ wf.reports = 1
    /\ \A a \in Agents : wf.agent[a] = "ok"

====
